---- MODULE Spec2Model ----
(***************************************************************************)
(* Model of the feature-toggle registry of src/src/lib.rs:                 *)
(* SiteFeatureBuilder (new, add_feature, build) and SiteFeatureSystem      *)
(* (get_all_ids, get_router, get_enabled, set_enabled) over an external    *)
(* SiteFeatureStorage and external SiteFeature implementations.            *)
(***************************************************************************)
EXTENDS Naturals, Sequences, FiniteSets, TLC

(***************************************************************************)
(* Bounds and the universe of values.                                      *)
(***************************************************************************)

\* Identifiers a caller may pass; "other" is reported by f3 only.
Ids == {"log", "other"}

\* Feature objects that can be handed to the builder. f1 and f2 report the
\* same identifier, so adding both is a collision.
Objs == {"f1", "f2", "f3"}

\* Reasons a hook may give in Failure(reason).
Reasons == {"x", "y"}

\* HashMap::get / HashMap::insert returning None.
NoFeature == "None"

\* The builder holds no storage; build binds one.
NoStorage == "NoStorage"

(***************************************************************************)
(* FeatureError and Result<(), FeatureError>.                              *)
(***************************************************************************)

Ok == [kind |-> "Ok", reason |-> ""]

Failure(r) == [kind |-> "Failure", reason |-> r]

DoesNotExist == [kind |-> "DoesNotExist", reason |-> ""]

\* What a setup or shutdown hook may return.
HookOuts == {Ok} \cup {Failure(r) : r \in Reasons}

\* What a write to the flag store may return.
WriteOuts == {Ok, Failure("store")}

(***************************************************************************)
(* SiteFeature implementations (the features handed to the builder).       *)
(***************************************************************************)

get_id(f) == IF f = "f3" THEN "other" ELSE "log"

\* f2 keeps the trait's default sub-path.
get_subpath(f) == CASE f = "f1" -> "/log" [] f = "f2" -> "/" [] OTHER -> "/other"

\* A feature as constructed: no hook has run, its counter is 0.
NewFeature == [live |-> "new", counter |-> 0]

\* setup: on success the feature is set up and its counter is 1.
setup(s, out) == IF out = Ok THEN [live |-> "setup", counter |-> 1] ELSE s

\* shutdown: on success the feature is shut down and its counter is 0.
shutdown(s, out) == IF out = Ok THEN [live |-> "shutdown", counter |-> 0] ELSE s

(***************************************************************************)
(* SiteFeatureStorage (the external flag store).                           *)
(***************************************************************************)

storage_get_enabled(st, id) == st[id]

\* A write either records the value and returns Ok, or fails and records
\* nothing.
storage_set_enabled(st, id, enabled, writeOut) ==
    IF writeOut = Ok THEN [st EXCEPT ![id] = enabled] ELSE st

(***************************************************************************)
(* The host: threads that call set_enabled, with or without a lock.        *)
(***************************************************************************)

Threads == {"t1", "t2"}

\* The host has no lock around set_enabled / the lock is not held.
NoMutex == "none"

Free == "free"

\* A thread that is not inside set_enabled.
Idle == [pc |-> "idle", id |-> "", enabled |-> FALSE, prev_enabled |-> FALSE,
         events |-> <<>>]

\* The most successful hooks followed on one feature object.
MaxHooks == 3

(***************************************************************************)
(* State.                                                                  *)
(***************************************************************************)

VARIABLES
    phase,      \* "builder" until build, "system" afterwards
    pending,    \* feature objects not yet moved into the builder
    features,   \* the HashMap: identifier -> feature object or NoFeature
    fstate,     \* the internal state of every feature object
    warnings,   \* warn! lines emitted by add_feature: <<new, previous>>
    storage,    \* the flag store bound by build
    store0,     \* the flag store as it was handed to build
    recent,     \* the last two operations on the system, older first
    scenario,   \* how far the set_enabled calls so far follow Script
    hooks,      \* per feature object, the successful hooks run on it, in
                \* order; kept by SpecReliable and SpecRace, which bound it
    threads,    \* SpecRace: where each host thread is in its set_enabled call
    mutex       \* SpecRace: the host's lock around set_enabled, if it has one

vars == <<phase, pending, features, fstate, warnings, storage, store0, recent, scenario,
          hooks, threads, mutex>>

\* An event of one call: a storage read ("get"), a hook ("setup",
\* "shutdown") or a storage write ("set"); on what (an identifier or a
\* feature object), the flag read or to be reached, and what it returned.
Event(op, on, val, out) == [op |-> op, on |-> on, val |-> val, out |-> out]

HookEvents(es) == {i \in 1..Len(es) : es[i].op \in {"setup", "shutdown"}}

WriteEvents(es) == {i \in 1..Len(es) : es[i].op = "set"}

(***************************************************************************)
(* SiteFeatureBuilder.                                                     *)
(***************************************************************************)

\* Mutant of insert: an entry already present is kept (insert-if-absent).
insert_keep_first(map, id, f) ==
    IF map[id] = NoFeature THEN [map EXCEPT ![id] = f] ELSE map

\* HashMap::insert: the entry of id is replaced.
insert(map, id, f) == [map EXCEPT ![id] = f]

\* new(): an empty feature map.
new == [id \in Ids |-> NoFeature]

\* add_feature: insert under the feature's own id; the previous entry, if
\* any, is dropped after a warning.
add_feature(map, warned, f) ==
    LET id == get_id(f)
        prev == map[id]
    IN [features |-> insert(map, id, f),
        warnings |-> IF prev # NoFeature THEN Append(warned, <<f, prev>>) ELSE warned]

\* build: the map and the storage are moved into the system unchanged.
build(map, st) == [storage |-> st, features |-> map]

(***************************************************************************)
(* SiteFeatureSystem.                                                      *)
(***************************************************************************)

\* The keys of the feature map.
Registered(map) == {id \in Ids : map[id] # NoFeature}

\* The orders in which a HashMap may be iterated.
Orders(map) ==
    {o \in [1..Cardinality(Registered(map)) -> Registered(map)] :
        \A i, j \in DOMAIN o : o[i] = o[j] => i = j}

\* Mutant of get_all_ids: only the identifiers whose flag is set are listed.
get_all_ids_enabled_only(map, order) ==
    LET on == SelectSeq(order, LAMBDA id : storage[id])
    IN [i \in DOMAIN on |-> get_id(map[on[i]])]

get_all_ids(map, order) == [i \in DOMAIN order |-> get_id(map[order[i]])]

\* Mutant of get_router: only the features whose flag is set are nested.
get_router_enabled_only(map, order) ==
    LET on == SelectSeq(order, LAMBDA id : storage[id])
    IN [i \in DOMAIN on |-> <<get_subpath(map[on[i]]), map[on[i]]>>]

\* The composed router, as the nest calls made on it: <<path, feature>>.
get_router(map, order) ==
    [i \in DOMAIN order |-> <<get_subpath(map[order[i]]), map[order[i]]>>]

\* Mutant of get_enabled: an unregistered id is answered false.
get_enabled_registered_only(st, id) ==
    IF features[id] = NoFeature THEN FALSE ELSE storage_get_enabled(st, id)

get_enabled(st, id) == storage_get_enabled(st, id)

\* Mutant of NoChange: the equality check is missing.
NoChange_never(prev_enabled, enabled) == FALSE

\* `if prev_enabled == enabled`: the call has nothing to do.
NoChange(prev_enabled, enabled) == prev_enabled = enabled

\* `self.features.get_mut(id)`.
get_mut(map, id) == map[id]

\* Mutant of HookFor: setup is run whatever the flag was.
HookFor_always_setup(prev_enabled) == "setup"

\* Mutant of HookFor: the two arms are swapped.
HookFor_swapped(prev_enabled) == IF prev_enabled THEN "setup" ELSE "shutdown"

\* `match prev_enabled`: the hook of a transition away from prev_enabled.
HookFor(prev_enabled) == IF prev_enabled THEN "shutdown" ELSE "setup"

\* Mutant of Propagates: the hook's Result is dropped, not propagated.
Propagates_never(hookOut) == FALSE

\* The `?` after the hook: whether set_enabled returns the hook's error.
Propagates(hookOut) == hookOut # Ok

\* Mutant of persist: the write to the flag store is missing.
persist_nothing(st, id, enabled, writeOut) == st

\* Mutant of persist: the write sets the flag of every identifier.
persist_all(st, id, enabled, writeOut) ==
    IF writeOut = Ok THEN [k \in DOMAIN st |-> enabled] ELSE st

\* `self.storage.set_enabled(id, enabled);` the Result is dropped.
persist(st, id, enabled, writeOut) == storage_set_enabled(st, id, enabled, writeOut)

\* Mutant of returned: the Result of the storage write is returned.
returned_store_result(writeOut) == writeOut

\* The final `Ok(())`, whatever the storage write returned.
returned(writeOut) == Ok

\* Mutant of none_arm: the flag of an unknown identifier is cleared.
none_arm_clears(st, fs, id, enabled, read, writeOut) ==
    [ret |-> DoesNotExist, storage |-> persist(st, id, FALSE, writeOut), fstate |-> fs,
     events |-> Append(read, Event("set", id, FALSE, writeOut))]

\* Mutant of none_arm: the None arm falls through to the storage write.
none_arm_falls_through(st, fs, id, enabled, read, writeOut) ==
    [ret |-> Ok, storage |-> persist(st, id, enabled, writeOut), fstate |-> fs,
     events |-> Append(read, Event("set", id, enabled, writeOut))]

\* `None => return Err(FeatureError::DoesNotExist)`.
none_arm(st, fs, id, enabled, read, writeOut) ==
    [ret |-> DoesNotExist, storage |-> st, fstate |-> fs, events |-> read]

\* Mutant of set_enabled: the flag is written before the hook is run.
set_enabled_write_first(map, st, fs, id, enabled, hookOut, writeOut) ==
    LET prev_enabled == storage_get_enabled(st, id)
        read == <<Event("get", id, prev_enabled, Ok)>>
        feature == get_mut(map, id)
    IN  IF NoChange(prev_enabled, enabled)
        THEN [ret |-> Ok, storage |-> st, fstate |-> fs, events |-> read]
        ELSE IF feature = NoFeature
        THEN none_arm(st, fs, id, enabled, read, writeOut)
        ELSE
          LET hook == HookFor(prev_enabled)
              after == IF hook = "shutdown" THEN shutdown(fs[feature], hookOut)
                                              ELSE setup(fs[feature], hookOut)
              written == Append(read, Event("set", id, enabled, writeOut))
          IN  [ret |-> IF Propagates(hookOut) THEN hookOut ELSE returned(writeOut),
               storage |-> persist(st, id, enabled, writeOut),
               fstate |-> [fs EXCEPT ![feature] = after],
               events |-> Append(written, Event(hook, feature, enabled, hookOut))]

\* set_enabled: the result, the storage and feature states it leaves, and
\* the calls it made on its collaborators, in order.
set_enabled(map, st, fs, id, enabled, hookOut, writeOut) ==
    LET prev_enabled == storage_get_enabled(st, id)
        read == <<Event("get", id, prev_enabled, Ok)>>
        feature == get_mut(map, id)
    IN  IF NoChange(prev_enabled, enabled)
        THEN [ret |-> Ok, storage |-> st, fstate |-> fs, events |-> read]
        ELSE IF feature = NoFeature
        THEN none_arm(st, fs, id, enabled, read, writeOut)
        ELSE
          LET hook == HookFor(prev_enabled)
              after == IF hook = "shutdown" THEN shutdown(fs[feature], hookOut)
                                              ELSE setup(fs[feature], hookOut)
              fs2 == [fs EXCEPT ![feature] = after]
              called == Append(read, Event(hook, feature, enabled, hookOut))
          IN  IF Propagates(hookOut)
              THEN [ret |-> hookOut, storage |-> st, fstate |-> fs2, events |-> called]
              ELSE [ret |-> returned(writeOut),
                    storage |-> persist(st, id, enabled, writeOut),
                    fstate |-> fs2,
                    events |-> Append(called, Event("set", id, enabled, writeOut))]

(***************************************************************************)
(* History: what the operations returned and the calls they made.          *)
(***************************************************************************)

\* One operation on the system: its name, its arguments, what it returned
\* and the calls it made on the storage and on features.
Call(op, id, enabled, ret, events) ==
    [op |-> op, id |-> id, enabled |-> enabled, ret |-> ret, events |-> events]

\* The window after one more operation.
Remember(window, c) ==
    IF window = <<>> THEN <<c>> ELSE <<window[Len(window)], c>>

\* The set_enabled calls of the scenario of the specification's section 8.
Script == << <<"log", TRUE>>, <<"log", TRUE>>, <<"log", FALSE>>, <<"other", TRUE>> >>

\* The calls so far have left the scenario.
Off == Len(Script) + 1

\* The scenario's position after set_enabled(id, enabled) made `events`:
\* it advances when the call is the next one of Script and every hook and
\* every storage write of the call succeeded.
Follow(pos, id, enabled, events) ==
    IF /\ pos < Len(Script)
       /\ Script[pos + 1] = <<id, enabled>>
       /\ \A i \in DOMAIN events : events[i].out = Ok
    THEN pos + 1
    ELSE Off

(***************************************************************************)
(* Actions.                                                                *)
(***************************************************************************)

Init ==
    /\ phase = "builder"
    /\ pending = Objs
    /\ features = new
    /\ fstate = [f \in Objs |-> NewFeature]
    /\ warnings = <<>>
    /\ storage = NoStorage
    /\ store0 = NoStorage
    /\ recent = <<>>
    /\ scenario = 0
    /\ hooks = [f \in Objs |-> <<>>]
    /\ threads = [t \in Threads |-> Idle]
    /\ mutex = NoMutex

AddFeature ==
    /\ phase = "builder"
    /\ \E f \in pending :
        LET r == add_feature(features, warnings, f)
        IN /\ features' = r.features
           /\ warnings' = r.warnings
           /\ pending' = pending \ {f}
    /\ UNCHANGED <<phase, fstate, storage, store0, recent, scenario>>
    /\ UNCHANGED <<hooks, threads, mutex>>

\* Mutant of Build: setup is run on every feature the store reports enabled.
Build_runs_setup ==
    /\ phase = "builder"
    /\ \E st \in [Ids -> BOOLEAN] :
        LET r == build(features, st)
        IN /\ storage' = r.storage
           /\ store0' = r.storage
           /\ features' = r.features
           /\ fstate' = [f \in Objs |->
                IF \E id \in Ids : r.features[id] = f /\ st[id]
                THEN setup(fstate[f], Ok) ELSE fstate[f]]
    /\ phase' = "system"
    /\ UNCHANGED <<pending, warnings, recent, scenario>>
    /\ UNCHANGED <<hooks, threads, mutex>>

Build ==
    /\ phase = "builder"
    /\ \E st \in [Ids -> BOOLEAN] :
        LET r == build(features, st)
        IN /\ storage' = r.storage
           /\ store0' = r.storage
           /\ features' = r.features
    /\ phase' = "system"
    /\ UNCHANGED <<pending, fstate, warnings, recent, scenario>>
    /\ UNCHANGED <<hooks, threads, mutex>>

GetAllIds ==
    /\ phase = "system"
    /\ \E order \in Orders(features) :
        recent' = Remember(recent,
            Call("get_all_ids", "", FALSE, get_all_ids(features, order), <<>>))
    /\ UNCHANGED <<phase, pending, features, fstate, warnings, storage, store0, scenario>>
    /\ UNCHANGED <<hooks, threads, mutex>>

GetRouter ==
    /\ phase = "system"
    /\ \E order \in Orders(features) :
        recent' = Remember(recent,
            Call("get_router", "", FALSE, get_router(features, order), <<>>))
    /\ UNCHANGED <<phase, pending, features, fstate, warnings, storage, store0, scenario>>
    /\ UNCHANGED <<hooks, threads, mutex>>

GetEnabled ==
    /\ phase = "system"
    /\ \E id \in Ids :
        LET v == get_enabled(storage, id)
        IN recent' = Remember(recent,
            Call("get_enabled", id, FALSE, v, <<Event("get", id, v, Ok)>>))
    /\ UNCHANGED <<phase, pending, features, fstate, warnings, storage, store0, scenario>>
    /\ UNCHANGED <<hooks, threads, mutex>>

SetEnabled ==
    /\ phase = "system"
    /\ \E id \in Ids, enabled \in BOOLEAN, hookOut \in HookOuts, writeOut \in WriteOuts :
        \E r \in {set_enabled(features, storage, fstate, id, enabled, hookOut, writeOut)} :
           /\ storage' = r.storage
           /\ fstate' = r.fstate
           /\ recent' = Remember(recent, Call("set_enabled", id, enabled, r.ret, r.events))
           /\ scenario' = Follow(scenario, id, enabled, r.events)
    /\ UNCHANGED <<phase, pending, features, warnings, store0>>
    /\ UNCHANGED <<hooks, threads, mutex>>

Next ==
    \/ AddFeature
    \/ Build
    \/ GetAllIds
    \/ GetRouter
    \/ GetEnabled
    \/ SetEnabled

Spec == Init /\ [][Next]_vars

(***************************************************************************)
(* SpecReliable: the system over a flag store in which every flag starts   *)
(* false and every write is recorded; the successful hooks are followed.   *)
(***************************************************************************)

\* The successful hooks per feature object after a call that made `events`.
Recorded(h, events) ==
    [f \in Objs |->
        LET run == {i \in HookEvents(events) : events[i].on = f /\ events[i].out = Ok}
        IN IF run = {} THEN h[f] ELSE Append(h[f], events[CHOOSE i \in run : TRUE].op)]

BuildOverFalse ==
    /\ Build
    /\ \A id \in Ids : ~storage'[id]

ReliableSetEnabled ==
    /\ phase = "system"
    /\ \E id \in Ids, enabled \in BOOLEAN, hookOut \in HookOuts :
        \E r \in {set_enabled(features, storage, fstate, id, enabled, hookOut, Ok)} :
           /\ storage' = r.storage
           /\ fstate' = r.fstate
           /\ recent' = Remember(recent, Call("set_enabled", id, enabled, r.ret, r.events))
           /\ scenario' = Follow(scenario, id, enabled, r.events)
           /\ hooks' = Recorded(hooks, r.events)
           /\ \A f \in Objs : Len(hooks'[f]) <= MaxHooks
    /\ UNCHANGED <<phase, pending, features, warnings, store0, threads, mutex>>

NextReliable ==
    \/ AddFeature
    \/ BuildOverFalse
    \/ GetAllIds
    \/ GetRouter
    \/ GetEnabled
    \/ ReliableSetEnabled

SpecReliable == Init /\ [][NextReliable]_vars

(***************************************************************************)
(* SpecRace: two host threads call set_enabled on one built system; a call *)
(* is three steps (flag read, hook, flag write). With a lock the host      *)
(* holds it from the read to the return; without one the steps interleave. *)
(***************************************************************************)

InitRace ==
    /\ phase = "system"
    /\ pending = Objs \ {"f1"}
    /\ features = insert(new, get_id("f1"), "f1")
    /\ fstate = [f \in Objs |-> NewFeature]
    /\ warnings = <<>>
    /\ storage \in [Ids -> BOOLEAN]
    /\ store0 = storage
    /\ recent = <<>>
    /\ scenario = 0
    /\ hooks = [f \in Objs |-> <<>>]
    /\ threads = [t \in Threads |-> Idle]
    /\ mutex \in {NoMutex, Free}

\* Thread t returns ret from its call, which made `events`.
Return(t, ret, events) ==
    /\ recent' = Remember(recent,
            Call("set_enabled", threads[t].id, threads[t].enabled, ret, events))
    /\ scenario' = Follow(scenario, threads[t].id, threads[t].enabled, events)
    /\ threads' = [threads EXCEPT ![t] = Idle]
    /\ mutex' = IF mutex = NoMutex THEN NoMutex ELSE Free

\* Thread t enters set_enabled(id, enabled): the flag read and the equality
\* check.
RaceRead(t) ==
    /\ threads[t].pc = "idle"
    /\ mutex \in {NoMutex, Free}
    /\ \E id \in Ids, enabled \in BOOLEAN :
        LET prev_enabled == storage_get_enabled(storage, id)
            read == <<Event("get", id, prev_enabled, Ok)>>
        IN IF NoChange(prev_enabled, enabled)
           THEN /\ recent' = Remember(recent, Call("set_enabled", id, enabled, Ok, read))
                /\ scenario' = Follow(scenario, id, enabled, read)
                /\ UNCHANGED <<threads, mutex>>
           ELSE /\ threads' = [threads EXCEPT ![t] =
                        [pc |-> "hook", id |-> id, enabled |-> enabled,
                         prev_enabled |-> prev_enabled, events |-> read]]
                /\ mutex' = IF mutex = NoMutex THEN NoMutex ELSE t
                /\ UNCHANGED <<recent, scenario>>
    /\ UNCHANGED <<phase, pending, features, fstate, warnings, storage, store0, hooks>>

\* Thread t looks its feature up and runs the hook.
RaceHook(t) ==
    /\ threads[t].pc = "hook"
    /\ LET c == threads[t]
           feature == get_mut(features, c.id)
       IN IF feature = NoFeature
          THEN \E r \in {none_arm(storage, fstate, c.id, c.enabled, c.events, Ok)} :
                /\ storage' = r.storage
                /\ fstate' = r.fstate
                /\ Return(t, r.ret, r.events)
                /\ UNCHANGED hooks
          ELSE \E hookOut \in HookOuts :
                LET hook == HookFor(c.prev_enabled)
                    after == IF hook = "shutdown" THEN shutdown(fstate[feature], hookOut)
                                                    ELSE setup(fstate[feature], hookOut)
                    called == Append(c.events, Event(hook, feature, c.enabled, hookOut))
                IN /\ fstate' = [fstate EXCEPT ![feature] = after]
                   /\ hooks' = Recorded(hooks, called)
                   /\ \A f \in Objs : Len(hooks'[f]) <= MaxHooks
                   /\ IF Propagates(hookOut)
                      THEN Return(t, hookOut, called)
                      ELSE /\ threads' = [threads EXCEPT ![t] =
                                    [c EXCEPT !.pc = "write", !.events = called]]
                           /\ UNCHANGED <<recent, scenario, mutex>>
                   /\ UNCHANGED storage
    /\ UNCHANGED <<phase, pending, features, warnings, store0>>

\* Thread t writes the flag and returns.
RaceWrite(t) ==
    /\ threads[t].pc = "write"
    /\ \E writeOut \in WriteOuts :
        LET c == threads[t]
        IN /\ storage' = persist(storage, c.id, c.enabled, writeOut)
           /\ Return(t, returned(writeOut),
                     Append(c.events, Event("set", c.id, c.enabled, writeOut)))
    /\ UNCHANGED <<phase, pending, features, fstate, warnings, store0, hooks>>

NextRace ==
    \E t \in Threads :
        \/ RaceRead(t)
        \/ RaceHook(t)
        \/ RaceWrite(t)

SpecRace == InitRace /\ [][NextRace]_vars

(***************************************************************************)
(* Reading the history.                                                    *)
(***************************************************************************)

\* The last operation on the system, and the one before it.
Last == recent[Len(recent)]

Prev == recent[1]

\* The last operation was op (in a step: the step is a call of op).
Called(op) == recent # <<>> /\ Last.op = op

\* The flag set_enabled read when the call began.
FlagRead(c) == c.events[1].val

\* The feature stored under id is set up: its last successful hook was setup.
SetUp(id) == fstate[features[id]].live = "setup"

(***************************************************************************)
(* C1 to C5: set_enabled, one call.                                        *)
(***************************************************************************)

\* C1 (as claimed): whenever set_enabled(id, v) has just returned success,
\* get_enabled(id) returns v, for any flag store, one whose writes may
\* fail included.
C1_Consistency ==
    (Called("set_enabled") /\ Last.ret = Ok)
        => get_enabled(storage, Last.id) = Last.enabled

\* C2 (as claimed): right after a set_enabled(id, v) on a registered id
\* that returned success, the persisted flag of id is true exactly when
\* the feature is set up, whatever the flag store held at build.
C2_PersistedLiveAgree ==
    (Called("set_enabled") /\ Last.ret = Ok /\ features[Last.id] # NoFeature)
        => (storage[Last.id] <=> SetUp(Last.id))

\* C3: in a set_enabled call on a registered id whose flag differs from
\* the target, a hook that returns an error ends the call: set_enabled
\* returns that error, the hook is the last thing it did, it wrote nothing
\* to the flag store, and the flag of id is what it was before the call.
C3_HookFailureRollback ==
    [][(/\ Called("set_enabled")'
        /\ features[Last'.id] # NoFeature
        /\ storage[Last'.id] # Last'.enabled
        /\ \E i \in HookEvents(Last'.events) : Last'.events[i].out # Ok)
       => LET es == Last'.events
          IN /\ es[Len(es)].op = HookFor(storage[Last'.id])
             /\ Last'.ret = es[Len(es)].out
             /\ Last'.ret.kind = "Failure"
             /\ WriteEvents(es) = {}
             /\ storage' = storage
             /\ get_enabled(storage', Last'.id) = get_enabled(storage, Last'.id)]_vars

\* C3 witness: enabling a registered, disabled feature has just failed with
\* Failure("y") from its setup hook.
C3_Witness ==
    /\ Called("set_enabled")
    /\ features[Last.id] # NoFeature
    /\ Last.enabled
    /\ Last.ret = Failure("y")
    /\ Last.events[Len(Last.events)].op = "setup"
    /\ ~storage[Last.id]

\* C4: set_enabled(id, target) on an id that is no key of the feature map,
\* with target different from the flag of id, returns DoesNotExist, invokes
\* no hook, writes nothing to the flag store and leaves every flag and
\* every feature as it was.
C4_UnknownIdTransition ==
    [][(/\ Called("set_enabled")'
        /\ features[Last'.id] = NoFeature
        /\ storage[Last'.id] # Last'.enabled)
       => /\ Last'.ret = DoesNotExist
          /\ HookEvents(Last'.events) = {}
          /\ WriteEvents(Last'.events) = {}
          /\ fstate' = fstate
          /\ storage' = storage]_vars

\* C4 witness: enabling the unregistered "other" has just been refused while
\* another feature is registered and set up.
C4_Witness ==
    /\ Called("set_enabled")
    /\ Last.id = "other"
    /\ features["other"] = NoFeature
    /\ Last.enabled /\ ~storage["other"]
    /\ Last.ret = DoesNotExist
    /\ features["log"] # NoFeature /\ SetUp("log")

\* C5: set_enabled(id, target) with target equal to the flag of id returns
\* success, invokes no hook and writes nothing, for registered and
\* unregistered ids alike, and leaves the whole registry unchanged.
C5_NoOpTransition ==
    [][(/\ Called("set_enabled")'
        /\ storage[Last'.id] = Last'.enabled)
       => /\ Last'.ret = Ok
          /\ HookEvents(Last'.events) = {}
          /\ WriteEvents(Last'.events) = {}
          /\ UNCHANGED <<phase, pending, features, fstate, warnings, storage, store0>>]_vars

\* C5 witness: two no-op calls in a row, one on an unregistered id and one
\* on a registered id whose flag is already true.
C5_Witness ==
    /\ Len(recent) = 2
    /\ Prev.op = "set_enabled" /\ Last.op = "set_enabled"
    /\ features[Prev.id] = NoFeature /\ Prev.enabled = FlagRead(Prev) /\ Prev.ret = Ok
    /\ features[Last.id] # NoFeature /\ Last.enabled /\ FlagRead(Last) /\ Last.ret = Ok
    /\ Len(Last.events) = 1

(***************************************************************************)
(* C6: two set_enabled calls in a row.                                     *)
(***************************************************************************)

\* The last two operations were set_enabled(id, v); set_enabled(id, v).
SameCallTwice ==
    /\ Len(recent) = 2
    /\ Prev.op = "set_enabled" /\ Last.op = "set_enabled"
    /\ Prev.id = Last.id /\ Prev.enabled = Last.enabled

\* The two calls invoked at most one hook, and the second was a no-op that
\* returned success.
SecondIsNoOp ==
    /\ Cardinality(HookEvents(Prev.events)) + Cardinality(HookEvents(Last.events)) <= 1
    /\ Last.ret = Ok
    /\ HookEvents(Last.events) = {}
    /\ WriteEvents(Last.events) = {}

\* C6 (as claimed): two consecutive calls set_enabled(id, v);
\* set_enabled(id, v) invoke at most one hook in total and the second is a
\* no-op returning success. Stated for a first call that returned success:
\* a first call that returns DoesNotExist or a hook's Failure is repeated
\* by the second call, as C3 and C4 require.
C6_Idempotence ==
    (SameCallTwice /\ Prev.ret = Ok) => SecondIsNoOp

\* C6, for every first call, whatever it returned.
C6_IdempotenceAnyOutcome == SameCallTwice => SecondIsNoOp

\* What holds of set_enabled: the statement of C6 when, in addition, the
\* flag store recorded the write of the first call (when it made one).
C6_IdempotenceWhenRecorded ==
    (/\ SameCallTwice
     /\ Prev.ret = Ok
     /\ \A i \in WriteEvents(Prev.events) : Prev.events[i].out = Ok)
        => SecondIsNoOp

(***************************************************************************)
(* C7: identifier collisions in the builder.                               *)
(***************************************************************************)

\* The operations in the window.
RecentCalls == {recent[i] : i \in DOMAIN recent}

\* The hooks a call invoked, as the feature objects they were invoked on.
HookedObjs(c) == {c.events[i].on : i \in HookEvents(c.events)}

\* C7: when add_feature was given a second feature with an identifier
\* already present, the map holds the second feature under that identifier
\* and the replaced one nowhere; no hook ever runs on the replaced feature,
\* and a set_enabled on the identifier runs its hook on the second one.
C7_LastWriteWins ==
    \A i \in DOMAIN warnings :
        LET second == warnings[i][1]
            first == warnings[i][2]
            id == get_id(second)
        IN (\A j \in DOMAIN warnings : j > i => get_id(warnings[j][1]) # id)
            => /\ get_id(first) = id
               /\ features[id] = second
               /\ \A k \in Ids : features[k] # first
               /\ fstate[first] = NewFeature
               /\ \A c \in RecentCalls :
                    /\ first \notin HookedObjs(c)
                    /\ (c.op = "set_enabled" /\ c.id = id) => HookedObjs(c) \subseteq {second}

\* C7 witness: after a collision on "log", a set_enabled("log", ..) has just
\* run a hook on the feature that was added second.
C7_Witness ==
    /\ warnings # <<>>
    /\ Called("set_enabled")
    /\ Last.id = "log"
    /\ HookedObjs(Last) = {warnings[1][1]}
    /\ Last.ret = Ok

(***************************************************************************)
(* C8, C9: the read-only operations.                                       *)
(***************************************************************************)

\* C8: get_router nests every feature of the map, once, under its own
\* sub-path, whatever the flags are, and changes no flag and no feature.
C8_RouteCompositionIgnoresFlags ==
    [][Called("get_router")'
       => LET r == Last'.ret
          IN /\ {r[i] : i \in DOMAIN r} =
                    {<<get_subpath(features[id]), features[id]>> : id \in Registered(features)}
             /\ Len(r) = Cardinality(Registered(features))
             /\ UNCHANGED <<features, fstate, storage>>]_vars

\* C8 witness: get_router has just nested two features, one whose flag is
\* true and one whose flag is false.
C8_Witness ==
    /\ Called("get_router")
    /\ Len(Last.ret) = 2
    /\ Registered(features) = Ids
    /\ storage["log"] /\ ~storage["other"]

\* C9: get_enabled(id) returns what the flag store's get_enabled(id)
\* returns in that state, for registered and unregistered ids alike,
\* invokes no hook, writes nothing and changes no flag and no feature.
C9_GetEnabledDelegates ==
    [][Called("get_enabled")'
       => /\ Last'.ret = storage_get_enabled(storage, Last'.id)
          /\ HookEvents(Last'.events) = {}
          /\ WriteEvents(Last'.events) = {}
          /\ UNCHANGED <<features, fstate, storage>>]_vars

\* C9 witness: get_enabled has just answered true for an identifier that is
\* no key of the feature map.
C9_Witness ==
    /\ Called("get_enabled")
    /\ features[Last.id] = NoFeature
    /\ Last.ret = TRUE

(***************************************************************************)
(* C10: the concrete scenario.                                             *)
(***************************************************************************)

\* The registry of the scenario: "log" is the only feature, and the flag
\* store handed to build answered false for every identifier.
ScenarioRegistry ==
    /\ phase = "system"
    /\ Registered(features) = {"log"}
    /\ store0 = [id \in Ids |-> FALSE]

\* The counter of the feature stored under "log".
LogCounter == fstate[features["log"]].counter

\* C10: on the scenario's registry, with every hook and every write
\* succeeding, the calls set_enabled(log,true); set_enabled(log,true);
\* set_enabled(log,false); set_enabled(other,true) give, in order: success,
\* flag true, counter 1; success, no hook, counter 1; success, flag false,
\* counter 0; DoesNotExist, the flag of "other" unchanged.
C10_ConcreteScenario ==
    ScenarioRegistry =>
        /\ scenario = 1 =>
            /\ storage["log"] /\ LogCounter = 1
            /\ Called("set_enabled") => Last.ret = Ok
        /\ scenario = 2 =>
            /\ storage["log"] /\ LogCounter = 1
            /\ Called("set_enabled") => (Last.ret = Ok /\ HookEvents(Last.events) = {})
        /\ scenario = 3 =>
            /\ ~storage["log"] /\ LogCounter = 0
            /\ Called("set_enabled") => Last.ret = Ok
        /\ scenario = 4 =>
            /\ storage["other"] = store0["other"]
            /\ ~storage["log"] /\ LogCounter = 0
            /\ Called("set_enabled") => Last.ret = DoesNotExist

\* C10 witness: the fourth call of the scenario has just returned.
C10_Witness ==
    /\ ScenarioRegistry
    /\ scenario = Len(Script)
    /\ Called("set_enabled")
    /\ Last.id = "other" /\ Last.ret = DoesNotExist
    /\ Prev.id = "log" /\ Prev.ret = Ok /\ ~Prev.enabled

(***************************************************************************)
(* C11 to C13: the order of events inside one set_enabled call.            *)
(***************************************************************************)

\* C11: a set_enabled(id, target) call invokes at most one hook; when it
\* invokes one, it is shutdown exactly when the flag read at the start of
\* the call is true (and the target false) and setup exactly when it is
\* false; no hook is invoked when the target equals the flag. The state of
\* the feature itself plays no part.
C11_HookDirection ==
    [][Called("set_enabled")'
       => LET c == Last'
              flag == storage[c.id]
          IN /\ Cardinality(HookEvents(c.events)) <= 1
             /\ FlagRead(c) = flag
             /\ \A i \in HookEvents(c.events) :
                    /\ c.enabled = ~flag
                    /\ c.events[i].op = "shutdown" <=> flag
                    /\ c.events[i].op = "setup" <=> ~flag
             /\ c.enabled = flag => HookEvents(c.events) = {}]_vars

\* C11 witness: setup has just been invoked on a feature that was already
\* set up, because the flag read was false.
C11_Witness ==
    /\ Len(recent) = 2
    /\ Prev.op = "set_enabled" /\ Last.op = "set_enabled"
    /\ Prev.id = Last.id
    /\ \E i \in HookEvents(Prev.events) :
            Prev.events[i].op = "setup" /\ Prev.events[i].out = Ok
    /\ \E i \in HookEvents(Last.events) :
            Last.events[i].op = "setup" /\ Last.events[i].on = features[Last.id]
    /\ ~FlagRead(Last)

\* C12: in one set_enabled call the flag is read first, a hook comes second
\* and a write to the flag store third; the write is made at most once,
\* only right after a hook of the same call that returned success, for the
\* same id and with the target value; the stored flags change only by it.
C12_HookBeforeWrite ==
    [][Called("set_enabled")'
       => LET c == Last'
              es == c.events
          IN /\ es[1].op = "get" /\ es[1].on = c.id /\ es[1].val = storage[c.id]
             /\ \A i \in HookEvents(es) : i = 2
             /\ Cardinality(WriteEvents(es)) <= 1
             /\ \A i \in WriteEvents(es) :
                    /\ i = 3 /\ i = Len(es)
                    /\ es[2].op \in {"setup", "shutdown"} /\ es[2].out = Ok
                    /\ es[i].on = c.id
                    /\ es[i].val = c.enabled
             /\ storage' # storage => WriteEvents(es) # {}]_vars

\* C12 witness: a call has just read the flag, run shutdown and written
\* false, in that order.
C12_Witness ==
    /\ Called("set_enabled")
    /\ Len(Last.events) = 3
    /\ Last.events[1].op = "get" /\ Last.events[1].val
    /\ Last.events[2].op = "shutdown" /\ Last.events[2].out = Ok
    /\ Last.events[3].op = "set" /\ ~Last.events[3].val /\ Last.events[3].out = Ok
    /\ ~storage[Last.id]

\* The persisted flag of a registered id and the live state of its feature
\* disagree.
Diverged(id) ==
    /\ features[id] # NoFeature
    /\ storage[id] # SetUp(id)

\* The feature states that agree with the flags: set up where the flag of
\* the feature's id is true, as constructed elsewhere.
Agreeing ==
    [f \in Objs |-> IF \E id \in Ids : features[id] = f /\ storage[id]
                     THEN setup(NewFeature, Ok) ELSE NewFeature]

\* Every set_enabled call returns what it would return, and makes the calls
\* and leaves the flags it would leave, if the features agreed with the
\* flags.
NoDetection ==
    \A id \in Ids, enabled \in BOOLEAN, hookOut \in HookOuts, writeOut \in WriteOuts :
        LET a == set_enabled(features, storage, fstate, id, enabled, hookOut, writeOut)
            b == set_enabled(features, storage, Agreeing, id, enabled, hookOut, writeOut)
        IN a.ret = b.ret /\ a.events = b.events /\ a.storage = b.storage

\* C13: when the hook of a set_enabled call succeeds and the write to the
\* flag store then fails without recording the value, set_enabled still
\* returns success, the hook's effect stays, and the feature's live state
\* and the flag disagree; and in a state where they disagree no set_enabled
\* call returns or does anything else than it would if they agreed.
C13_StoreWriteFailureGap ==
    /\ [][(/\ Called("set_enabled")'
           /\ \E i \in WriteEvents(Last'.events) : Last'.events[i].out # Ok)
          => LET c == Last'
                 f == features[c.id]
             IN /\ c.ret = Ok
                /\ storage' = storage
                /\ c.events[2].out = Ok
                /\ fstate'[f].live = c.events[2].op
                /\ fstate'[f].live = "setup" <=> c.enabled
                /\ storage'[c.id] = ~c.enabled
                /\ f # NoFeature
                /\ storage'[c.id] # (fstate'[f].live = "setup")]_vars
    /\ []((phase = "system" /\ \E id \in Ids : Diverged(id)) => NoDetection)

\* C13 witness: the write of an enabling call has just failed: the call
\* returned success, the feature is set up and its flag is false.
C13_Witness ==
    /\ Called("set_enabled")
    /\ Last.ret = Ok /\ Last.enabled
    /\ \E i \in WriteEvents(Last.events) : Last.events[i].out # Ok
    /\ SetUp(Last.id) /\ ~storage[Last.id]
    /\ Diverged(Last.id)

(***************************************************************************)
(* C14: construction.                                                      *)
(***************************************************************************)

\* C14: new, add_feature and build run no hook and touch no flag store:
\* until the first operation on the built system every feature is as it
\* was constructed and the store is as it was handed over, also for an id
\* the store reports enabled; a feature's state changes only in a
\* set_enabled call that invoked a hook on it.
C14_ConstructionRunsNoLifecycle ==
    /\ [](recent = <<>> =>
            /\ fstate = [f \in Objs |-> NewFeature]
            /\ phase = "builder" => storage = NoStorage
            /\ phase = "system" => storage = store0)
    /\ [][\A f \in Objs :
            fstate'[f] # fstate[f]
                => Called("set_enabled")' /\ f \in HookedObjs(Last')]_vars

\* C14 witness: a system has just been built over a store that reports
\* "log" enabled, and the feature under "log" has run no hook.
C14_Witness ==
    /\ phase = "system"
    /\ recent = <<>>
    /\ features["log"] # NoFeature
    /\ storage["log"]
    /\ fstate[features["log"]] = NewFeature

(***************************************************************************)
(* C17 to C19: what set_enabled leaves alone.                              *)
(***************************************************************************)

\* C17: a set_enabled(id, target) call, whatever it returns, invokes hooks
\* only on the feature stored under id and writes only the flag of id;
\* every other flag and every other feature is as before the call.
C17_Isolation ==
    [][Called("set_enabled")'
       => LET c == Last'
          IN /\ HookedObjs(c) \subseteq {features[c.id]} \ {NoFeature}
             /\ \A i \in WriteEvents(c.events) : c.events[i].on = c.id
             /\ \A k \in Ids \ {c.id} : storage'[k] = storage[k]
             /\ \A f \in Objs \ {features[c.id]} : fstate'[f] = fstate[f]]_vars

\* C17 witness: "log" has just been disabled, with its hook and its write,
\* while "other" is registered, enabled and set up.
C17_Witness ==
    /\ Called("set_enabled")
    /\ Last.id = "log" /\ ~Last.enabled /\ Last.ret = Ok
    /\ Len(Last.events) = 3 /\ Last.events[3].out = Ok
    /\ features["other"] # NoFeature
    /\ storage["other"] /\ SetUp("other")

\* C18: for an identifier that is no key of the feature map, no operation
\* writes its flag, so its flag is the one the store had at build; and a
\* set_enabled(id, false) on such an id whose flag is true returns
\* DoesNotExist.
C18_UnregisteredFrozen ==
    phase = "system" =>
        \A id \in Ids \ Registered(features) :
            /\ storage[id] = store0[id]
            /\ \A c \in RecentCalls :
                /\ \A i \in WriteEvents(c.events) : c.events[i].on # id
                /\ (c.op = "set_enabled" /\ c.id = id /\ store0[id] /\ ~c.enabled)
                        => c.ret = DoesNotExist
                /\ (c.op = "get_enabled" /\ c.id = id) => c.ret = store0[id]

\* C18 witness: disabling the unregistered, enabled "other" has just been
\* refused, after a registered feature was toggled with a recorded write.
C18_Witness ==
    /\ Len(recent) = 2
    /\ Last.op = "set_enabled" /\ Last.id = "other" /\ ~Last.enabled
    /\ features["other"] = NoFeature
    /\ store0["other"] /\ storage["other"]
    /\ Last.ret = DoesNotExist
    /\ Prev.op = "set_enabled" /\ Prev.id = "log"
    /\ \E i \in WriteEvents(Prev.events) : Prev.events[i].out = Ok

\* C19: build hands the builder's map over as it is, no operation on the
\* system changes the map, and get_all_ids returns each key of the map
\* once, in some order.
C19_FeatureMapFixed ==
    [][/\ phase = "system" => features' = features
       /\ (phase = "builder" /\ phase' = "system") => features' = features
       /\ Called("get_all_ids")'
            => LET r == Last'.ret
               IN /\ {r[i] : i \in DOMAIN r} = Registered(features)
                  /\ Len(r) = Cardinality(Registered(features))]_vars

\* C19 witness: get_all_ids has just listed two identifiers, after a
\* set_enabled call that ran a hook, with one flag true and one false.
C19_Witness ==
    /\ Len(recent) = 2
    /\ Last.op = "get_all_ids"
    /\ Len(Last.ret) = 2
    /\ Prev.op = "set_enabled" /\ HookEvents(Prev.events) # {}
    /\ storage["log"] # storage["other"]

(***************************************************************************)
(* C15 and C16: the sequence of hooks run on one feature.                  *)
(***************************************************************************)

\* Two successful setups have run on f with no successful shutdown between.
TwiceSetup(f) ==
    \E i \in 1..(Len(hooks[f]) - 1) :
        hooks[f][i] = "setup" /\ hooks[f][i + 1] = "setup"

\* C15, as stated for serialized calls: when the host holds a lock around
\* every set_enabled call, no registered feature whose flag started false
\* has setup run twice with no shutdown in between.
C15_SerializedNeverTwice ==
    mutex # NoMutex =>
        \A id \in Registered(features) :
            ~store0[id] => ~TwiceSetup(features[id])

\* C15, the unserialized half: without a lock, two calls
\* set_enabled(id, true) have both read false and both run setup, with
\* every flag write recorded.
C15_RaceReached ==
    /\ mutex = NoMutex
    /\ Len(recent) = 2
    /\ \A c \in {recent[1], recent[2]} :
        /\ c.op = "set_enabled" /\ c.id = "log" /\ c.enabled
        /\ ~c.events[1].val
        /\ Len(c.events) = 3
        /\ \A i \in DOMAIN c.events : c.events[i].out = Ok
    /\ hooks[features["log"]] = <<"setup", "setup">>

\* The successful setups and shutdowns run on f so far.
Setups(f) == Cardinality({i \in DOMAIN hooks[f] : hooks[f][i] = "setup"})

Shutdowns(f) == Cardinality({i \in DOMAIN hooks[f] : hooks[f][i] = "shutdown"})

\* C16: over a flag store in which every flag starts false and every write
\* is recorded, with one set_enabled call at a time, the successful hooks
\* on every feature alternate setup, shutdown, setup, ... starting with
\* setup; the flag of a registered feature is true exactly when its
\* successful setups exceed its successful shutdowns by one, and the
\* difference is always 0 or 1.
C16_HooksAlternate ==
    /\ \A f \in Objs : \A i \in DOMAIN hooks[f] :
            hooks[f][i] = IF i % 2 = 1 THEN "setup" ELSE "shutdown"
    /\ phase = "system" =>
            \A id \in Registered(features) :
                LET f == features[id]
                IN /\ Setups(f) - Shutdowns(f) \in {0, 1}
                   /\ storage[id] <=> Setups(f) = Shutdowns(f) + 1

\* C16 witness: "log" has been set up, shut down and set up again, a hook
\* of "other" has failed, and the flag of "log" is true.
C16_Witness ==
    /\ phase = "system"
    /\ features["log"] # NoFeature /\ features["other"] # NoFeature
    /\ hooks[features["log"]] = <<"setup", "shutdown", "setup">>
    /\ storage["log"]
    /\ Called("set_enabled") /\ Last.id = "other" /\ Last.ret = Failure("x")
    /\ hooks[features["other"]] = <<"setup">>

====
